---- MODULE Spec2Model ----
(***************************************************************************)
(* EasyLead: the lead acquisition pipeline (services/businessService.ts),  *)
(* the field validators and the sorting of the table view                  *)
(* (components/LeadTable.tsx), the field validators of the map view        *)
(* (MapView), the search form (components/SearchModal.tsx), and the search *)
(* state, the progress display and the session of the application          *)
(* (App.tsx).                                                              *)
(*                                                                         *)
(* Strings are sequences of one-character strings.  JavaScript values are  *)
(* tagged records, so that undefined, null, strings, numbers, objects and  *)
(* arrays can live in one field.  An upstream response text is a sequence  *)
(* of lexical tokens; an error message is a sequence of words.             *)
(***************************************************************************)
EXTENDS Integers, Sequences, FiniteSets, TLC

----------------------------------------------------------------------------
(* Bounds of the model *)

\* longest raw response text (in tokens) the extraction inputs range over
MaxTextLen == 4

\* number of performSearch invocations in one behaviour
MaxSearches == 2

\* largest value of Date.now() drawn for a batch (the clock starts at 1)
MaxTime == 2

\* number of times the progress interval fires in one behaviour
MaxTicks == 2

----------------------------------------------------------------------------
(* JavaScript values *)

Undef == [k |-> "undefined"]

Null == [k |-> "null"]

NaN == [k |-> "nan"]

Str(s) == [k |-> "string", s |-> s]

Num(n) == [k |-> "number", n |-> n]

Arr(a) == [k |-> "array", a |-> a]

Obj(f) == [k |-> "object", f |-> f]

\* JavaScript truthiness: undefined, null, "", 0 and NaN are falsy
Truthy(v) ==
  CASE v.k = "undefined" -> FALSE
    [] v.k = "null" -> FALSE
    [] v.k = "nan" -> FALSE
    [] v.k = "string" -> v.s # <<>>
    [] v.k = "number" -> v.n # 0
    [] OTHER -> TRUE

\* a || b
OrElse(a, b) == IF Truthy(a) THEN a ELSE b

\* item.field on an object; a field the object lacks, or any field of a
\* primitive or an array, reads as undefined (reading a field of null throws:
\* the callers test for it first)
Field(item, name) ==
  IF item.k = "object" /\ name \in DOMAIN item.f THEN item.f[name] ELSE Undef

----------------------------------------------------------------------------
(* Strings *)

DigitChars == <<"0", "1", "2", "3", "4", "5", "6", "7", "8", "9">>

UpperChars ==
  <<"A", "B", "C", "D", "E", "F", "G", "H", "I", "J", "K", "L", "M",
    "N", "O", "P", "Q", "R", "S", "T", "U", "V", "W", "X", "Y", "Z">>

LowerChars ==
  <<"a", "b", "c", "d", "e", "f", "g", "h", "i", "j", "k", "l", "m",
    "n", "o", "p", "q", "r", "s", "t", "u", "v", "w", "x", "y", "z">>

IsDigit(c) == \E i \in 1..10 : DigitChars[i] = c

DigitValue(c) == (CHOOSE i \in 1..10 : DigitChars[i] = c) - 1

IsSpace(c) == c \in {" ", "\t", "\n"}

\* String.prototype.toLowerCase
ToLowerCase(s) ==
  [i \in 1..Len(s) |->
     IF \E j \in 1..26 : UpperChars[j] = s[i]
     THEN LowerChars[CHOOSE j \in 1..26 : UpperChars[j] = s[i]]
     ELSE s[i]]

\* String.prototype.trim
Trim(s) ==
  LET keep == {i \in 1..Len(s) : ~IsSpace(s[i])}
  IN IF keep = {} THEN <<>>
     ELSE LET lo == CHOOSE i \in keep : \A j \in keep : i <= j
              hi == CHOOSE i \in keep : \A j \in keep : j <= i
          IN SubSeq(s, lo, hi)

\* String.prototype.includes
Includes(s, k) ==
  \E i \in 1..(Len(s) - Len(k) + 1) : SubSeq(s, i, i + Len(k) - 1) = k

\* s.replace(/[^0-9]/g, '')
OnlyDigits(s) == SelectSeq(s, IsDigit)

\* /^(.)\1+$/.test(s): two or more copies of one character
IsRepeating(s) == Len(s) >= 2 /\ \A i \in 1..Len(s) : s[i] = s[1]

RECURSIVE DecStr(_)
\* the decimal digits of a non-negative integer, as template literals print it
DecStr(n) ==
  IF n < 10 THEN <<DigitChars[n + 1]>>
  ELSE DecStr(n \div 10) \o <<DigitChars[(n % 10) + 1]>>

RECURSIVE DigitsToNat(_)
DigitsToNat(s) ==
  IF s = <<>> THEN 0
  ELSE 10 * DigitsToNat(SubSeq(s, 1, Len(s) - 1)) + DigitValue(s[Len(s)])

\* String(v) for the values a contact field can hold
ToStr(v) ==
  CASE v.k = "string" -> v.s
    [] v.k = "number" -> DecStr(v.n)
    [] v.k = "null" -> <<"n", "u", "l", "l">>
    [] OTHER -> <<"u", "n", "d", "e", "f", "i", "n", "e", "d">>

\* Number(v): strings of digits convert (surrounding blanks ignored, the empty
\* string is 0), null is 0, every other non-number is NaN
ToNumber(v) ==
  CASE v.k = "number" -> v
    [] v.k = "null" -> Num(0)
    [] v.k = "string" ->
         LET t == Trim(v.s)
         IN IF \A i \in 1..Len(t) : IsDigit(t[i]) THEN Num(DigitsToNat(t)) ELSE NaN
    [] OTHER -> NaN

----------------------------------------------------------------------------
(* FieldValidator of the table view: components/LeadTable.tsx *)

invalidKeywords ==
  <<<<"n", "u", "l", "l">>,
    <<"n", "a">>,
    <<"n", "/", "a">>,
    <<"n", "o", "n", "e">>,
    <<"u", "n", "d", "e", "f", "i", "n", "e", "d">>,
    <<"n", "o", "t", " ", "a", "v", "a", "i", "l", "a", "b", "l", "e">>,
    <<"m", "i", "s", "s", "i", "n", "g">>,
    <<"h", "i", "d", "d", "e", "n">>,
    <<"p", "r", "i", "v", "a", "t", "e">>,
    <<"n", "o", " ", "n", "u", "m", "b", "e", "r">>,
    <<"u", "n", "k", "n", "o", "w", "n">>>>

\* v.length > MinValueLength
MinValueLength == 5

MinPhoneDigits == 8

MaxPhoneDigits == 15

\* isValueValid without the toLowerCase()
isValueValidCaseSensitive(val) ==
  IF ~Truthy(val) THEN FALSE
  ELSE LET v == Trim(ToStr(val))
       IN IF \E i \in 1..Len(invalidKeywords) :
               v = invalidKeywords[i] \/ Includes(v, invalidKeywords[i])
          THEN FALSE
          ELSE Len(v) > MinValueLength

isValueValid(val) ==
  IF ~Truthy(val) THEN FALSE
  ELSE LET v == ToLowerCase(Trim(ToStr(val)))
       IN IF \E i \in 1..Len(invalidKeywords) :
               v = invalidKeywords[i] \/ Includes(v, invalidKeywords[i])
          THEN FALSE
          ELSE Len(v) > MinValueLength

isPhoneValid(phone) ==
  IF ~isValueValid(phone) THEN FALSE
  ELSE LET digits == OnlyDigits(ToStr(phone))
           isRepeating == IsRepeating(digits)
       IN Len(digits) >= MinPhoneDigits /\ Len(digits) <= MaxPhoneDigits
          /\ ~isRepeating

----------------------------------------------------------------------------
(* FieldValidator of the map view: the MapView component                   *)

MapView_invalidKeywords ==
  <<<<"n", "u", "l", "l">>,
    <<"n", "a">>,
    <<"n", "/", "a">>,
    <<"n", "o", "n", "e">>,
    <<"u", "n", "d", "e", "f", "i", "n", "e", "d">>,
    <<"n", "o", "t", " ", "a", "v", "a", "i", "l", "a", "b", "l", "e">>,
    <<"m", "i", "s", "s", "i", "n", "g">>,
    <<"h", "i", "d", "d", "e", "n">>,
    <<"p", "r", "i", "v", "a", "t", "e">>>>

\* v.length > MapView_MinValueLength
MapView_MinValueLength == 1

MapView_MinPhoneDigits == 8

MapView_isValueValid(val) ==
  IF ~Truthy(val) THEN FALSE
  ELSE LET v == ToLowerCase(Trim(ToStr(val)))
       IN IF \E i \in 1..Len(MapView_invalidKeywords) :
               v = MapView_invalidKeywords[i] \/ Includes(v, MapView_invalidKeywords[i])
          THEN FALSE
          ELSE Len(v) > MapView_MinValueLength

MapView_isPhoneValid(phone) ==
  IF ~MapView_isValueValid(phone) THEN FALSE
  ELSE LET digits == OnlyDigits(ToStr(phone))
           isRepeating == IsRepeating(digits)
       IN Len(digits) >= MapView_MinPhoneDigits /\ ~isRepeating

----------------------------------------------------------------------------
(* Raw response texts and JSON.parse *)

\* The raw contact values the upstream may put in a candidate
PhoneReal == Str(<<"+", "9", "1", " ", "9", "8", "7", "6", "5", " ", "4", "3", "2", "1", "0">>)

PhoneSequence == Str(<<"1", "2", "3", "4", "5", "6", "7", "8", "9", "0">>)

PhoneRepeated == Str(<<"0", "0", "0", "0", "0", "0", "0", "0", "0", "0">>)

NoiseNA == Str(<<"N", "/", "A">>)

EmailReal == Str(<<"i", "n", "f", "o", "@", "a", "b", "c", ".", "i", "n">>)

WebReal == Str(<<"a", "b", "c", "-", "c", "a", "f", "e", ".", "i", "n">>)

NameA == Str(<<"C", "a", "f", "e", " ", "A">>)

AddrA == Str(<<"M", "G", " ", "R", "o", "a", "d">>)

\* The candidate objects a response text can hold, one per object token
Candidates ==
  [o1 |-> Obj([name |-> NameA, address |-> AddrA, phone |-> PhoneReal,
               email |-> EmailReal, website |-> WebReal,
               lat |-> Num(18), lng |-> Num(73)]),
   o2 |-> Obj([name |-> NameA, address |-> AddrA, phone |-> PhoneSequence,
               email |-> Null, website |-> NoiseNA,
               lat |-> Str(<<"1", "9">>), lng |-> Num(72)]),
   o3 |-> Obj([name |-> NameA, phone |-> PhoneRepeated, email |-> NoiseNA,
               lat |-> Num(0), lng |-> Num(73)]),
   o4 |-> Obj([phone |-> NoiseNA, lng |-> Str(<<"e">>)])]

ObjectTokens == DOMAIN Candidates

\* The tokens of a response text: brackets, comma, a word of prose, the null
\* literal, the number literal 7, the quote that opens and closes a string
\* literal, and one token per candidate object literal
Tokens == {"[", "]", ",", "x", "null", "7", "\""} \cup ObjectTokens

\* the position of the quote that closes the string literal opened at i, or 0
ClosingQuote(toks, i) ==
  IF \E j \in (i + 1)..Len(toks) : toks[j] = "\""
  THEN CHOOSE j \in (i + 1)..Len(toks) :
         toks[j] = "\"" /\ \A m \in (i + 1)..(j - 1) : toks[m] # "\""
  ELSE 0

RECURSIVE ParseValue(_, _)
RECURSIVE ParseElements(_, _, _)
\* One JSON value starting at position i: [ok, v, n], n the position after it
ParseValue(toks, i) ==
  IF i > Len(toks) THEN [ok |-> FALSE]
  ELSE CASE toks[i] = "null" -> [ok |-> TRUE, v |-> Null, n |-> i + 1]
         [] toks[i] = "7" -> [ok |-> TRUE, v |-> Num(7), n |-> i + 1]
         [] toks[i] \in ObjectTokens ->
              [ok |-> TRUE, v |-> Candidates[toks[i]], n |-> i + 1]
         [] toks[i] = "\"" ->
              LET j == ClosingQuote(toks, i)
              IN IF j = 0 THEN [ok |-> FALSE]
                 ELSE [ok |-> TRUE, v |-> Str(SubSeq(toks, i + 1, j - 1)), n |-> j + 1]
         [] toks[i] = "[" ->
              IF i + 1 <= Len(toks) /\ toks[i + 1] = "]"
              THEN [ok |-> TRUE, v |-> Arr(<<>>), n |-> i + 2]
              ELSE ParseElements(toks, i + 1, <<>>)
         [] OTHER -> [ok |-> FALSE]

\* The elements of an array after its "[" or after a ",", up to its "]"
ParseElements(toks, i, acc) ==
  LET e == ParseValue(toks, i)
  IN IF ~e.ok \/ e.n > Len(toks) THEN [ok |-> FALSE]
     ELSE CASE toks[e.n] = "]" ->
                 [ok |-> TRUE, v |-> Arr(Append(acc, e.v)), n |-> e.n + 1]
            [] toks[e.n] = "," -> ParseElements(toks, e.n + 1, Append(acc, e.v))
            [] OTHER -> [ok |-> FALSE]

\* JSON.parse: the whole text must be one value; ok = FALSE is a SyntaxError
JsonParse(toks) ==
  LET r == ParseValue(toks, 1)
  IN IF r.ok /\ r.n = Len(toks) + 1 THEN [ok |-> TRUE, v |-> r.v]
     ELSE [ok |-> FALSE]

\* text.indexOf(t), text.lastIndexOf(t): 0-based, -1 when absent
IndexOf(text, t) ==
  IF \E i \in 1..Len(text) : text[i] = t
  THEN (CHOOSE i \in 1..Len(text) :
          text[i] = t /\ \A j \in 1..(i - 1) : text[j] # t) - 1
  ELSE -1

LastIndexOf(text, t) ==
  IF \E i \in 1..Len(text) : text[i] = t
  THEN (CHOOSE i \in 1..Len(text) :
          text[i] = t /\ \A j \in (i + 1)..Len(text) : text[j] # t) - 1
  ELSE -1

\* text.substring(a, b): 0-based, end exclusive, arguments swapped when a > b
Substring(text, a, b) ==
  LET lo == IF a <= b THEN a ELSE b
      hi == IF a <= b THEN b ELSE a
  IN SubSeq(text, lo + 1, IF hi <= Len(text) THEN hi ELSE Len(text))

----------------------------------------------------------------------------
(* findBusinessLeads: services/businessService.ts, the exported version *)

\* process.env.API_KEY: absent, or a string
KeyAbsent == Undef

KeyEmpty == Str(<<>>)

KeyUndefinedString == Str(<<"u", "n", "d", "e", "f", "i", "n", "e", "d">>)

KeyPresent == Str(<<"A", "I", "z", "a">>)

ApiKeys == {KeyAbsent, KeyEmpty, KeyUndefinedString, KeyPresent}

\* Error messages are sequences of words; the messages the code itself throws
\* are one word each
ApiKeyMissingMsg == <<"API_KEY_MISSING">>

QuotaExceededMsg == <<"QUOTA_EXCEEDED">>

ConflictMsg ==
  <<"The search engine configuration encountered a conflict. We are working to resolve this.">>

ParseErrorMsg ==
  <<"The AI returned data in an unexpected format. Please try your search again.">>

\* the TypeError of reading item.lat when item is null
TypeErrorMsg == <<"Cannot", "read", "properties", "of", "null", "(reading", "'lat')">>

\* msg.includes(word), on messages
MsgIncludes(msg, word) == \E i \in 1..Len(msg) : msg[i] = word

\* KeyMissing without the test for the string "undefined"
KeyMissingFalsyOnly(key) == ~Truthy(key)

\* !process.env.API_KEY || process.env.API_KEY === "undefined" || ... === ""
KeyMissing(key) ==
  ~Truthy(key) \/ key = KeyUndefinedString \/ key = KeyEmpty

\* ExtractResults with an inner catch that swallows the SyntaxError and goes on
\* with no candidates
ExtractResultsSwallow(text) ==
  LET startIdx == IndexOf(text, "[")
      endIdx == LastIndexOf(text, "]")
      parsed == IF startIdx # -1 /\ endIdx # -1
                THEN JsonParse(Substring(text, startIdx, endIdx + 1))
                ELSE JsonParse(text)
  IN [ok |-> TRUE,
      results |-> IF ~parsed.ok THEN <<>>
                  ELSE IF parsed.v.k = "array" THEN parsed.v.a
                  ELSE IF Truthy(parsed.v) THEN <<parsed.v>> ELSE <<>>]

\* ExtractResults with the slice ended at the first "]"
ExtractResultsFirstClose(text) ==
  LET startIdx == IndexOf(text, "[")
      endIdx == IndexOf(text, "]")
      parsed == IF startIdx # -1 /\ endIdx # -1
                THEN JsonParse(Substring(text, startIdx, endIdx + 1))
                ELSE JsonParse(text)
  IN IF ~parsed.ok THEN [ok |-> FALSE, msg |-> ParseErrorMsg]
     ELSE [ok |-> TRUE,
           results |-> IF parsed.v.k = "array" THEN parsed.v.a
                       ELSE IF Truthy(parsed.v) THEN <<parsed.v>> ELSE <<>>]

\* The extraction of the candidate array from the raw text: the inner try
\* block and the Array.isArray wrapping that follows it
ExtractResults(text) ==
  LET startIdx == IndexOf(text, "[")
      endIdx == LastIndexOf(text, "]")
      parsed == IF startIdx # -1 /\ endIdx # -1
                THEN JsonParse(Substring(text, startIdx, endIdx + 1))
                ELSE JsonParse(text)
  IN IF ~parsed.ok THEN [ok |-> FALSE, msg |-> ParseErrorMsg]
     ELSE [ok |-> TRUE,
           results |-> IF parsed.v.k = "array" THEN parsed.v.a
                       ELSE IF Truthy(parsed.v) THEN <<parsed.v>> ELSE <<>>]

\* `lead-${Date.now()}-${index}`
LeadId(now, index) ==
  <<"l", "e", "a", "d", "-">> \o DecStr(now) \o <<"-">> \o DecStr(index)

DefaultName == Str(<<"B", "u", "s", "i", "n", "e", "s", "s">>)

DefaultAddress == Str(<<"A", "d", "d", "r", "e", "s", "s", " ", "n", "o", "t", " ", "f", "o", "u", "n", "d">>)

\* item.lat and the other reads throw a TypeError when item is null
ItemThrows(item) == item.k \in {"null", "undefined"}

\* NormalizeItem without the "|| 0" after Number(...)
NormalizeItemNoZeroDefault(item, index, now) ==
  [id |-> LeadId(now, index),
   name |-> OrElse(Field(item, "name"), DefaultName),
   address |-> OrElse(Field(item, "address"), DefaultAddress),
   phone |-> OrElse(Field(item, "phone"), Null),
   website |-> OrElse(Field(item, "website"), Null),
   email |-> OrElse(Field(item, "email"), Null),
   lat |-> ToNumber(Field(item, "lat")),
   lng |-> ToNumber(Field(item, "lng")),
   distance |-> Null,
   owner |-> OrElse(Field(item, "owner"), Null),
   source |-> "Google Search",
   rating |-> OrElse(Field(item, "rating"), Null),
   userRatingsTotal |-> OrElse(Field(item, "reviews_count"), Null)]

\* The callback of results.map, for an item that does not throw; index is the
\* 0-based position, now the value of Date.now()
NormalizeItem(item, index, now) ==
  [id |-> LeadId(now, index),
   name |-> OrElse(Field(item, "name"), DefaultName),
   address |-> OrElse(Field(item, "address"), DefaultAddress),
   phone |-> OrElse(Field(item, "phone"), Null),
   website |-> OrElse(Field(item, "website"), Null),
   email |-> OrElse(Field(item, "email"), Null),
   lat |-> OrElse(ToNumber(Field(item, "lat")), Num(0)),
   lng |-> OrElse(ToNumber(Field(item, "lng")), Num(0)),
   distance |-> Null,
   owner |-> OrElse(Field(item, "owner"), Null),
   source |-> "Google Search",
   rating |-> OrElse(Field(item, "rating"), Null),
   userRatingsTotal |-> OrElse(Field(item, "reviews_count"), Null)]

\* results.map(...): clock[i] is Date.now() at the i-th item
NormalizeAll(results, clock) ==
  IF \E i \in 1..Len(results) : ItemThrows(results[i])
  THEN [ok |-> FALSE, msg |-> TypeErrorMsg]
  ELSE [ok |-> TRUE,
        leads |-> [i \in 1..Len(results) |->
                     NormalizeItem(results[i], i - 1, clock[i])]]

\* The body of the outer try, from the settled upstream call on: either the
\* leads to return, or the message of the error thrown into the catch block
TryBody(resp, clock) ==
  IF ~resp.ok THEN [threw |-> TRUE, msg |-> resp.msg]
  ELSE LET ex == ExtractResults(resp.text)
       IN IF ~ex.ok THEN [threw |-> TRUE, msg |-> ex.msg]
          ELSE LET nm == NormalizeAll(ex.results, clock)
               IN IF ~nm.ok THEN [threw |-> TRUE, msg |-> nm.msg]
                  ELSE [threw |-> FALSE, leads |-> nm.leads]

\* ClassifyError with the INVALID_ARGUMENT test ahead of the quota test
ClassifyErrorInvalidFirst(msg) ==
  IF MsgIncludes(msg, "INVALID_ARGUMENT") THEN ConflictMsg
  ELSE IF MsgIncludes(msg, "429") \/ MsgIncludes(msg, "RESOURCE_EXHAUSTED")
          \/ MsgIncludes(msg, "quota")
  THEN QuotaExceededMsg
  ELSE msg

\* The message of the error the catch block throws
ClassifyError(msg) ==
  IF MsgIncludes(msg, "429") \/ MsgIncludes(msg, "RESOURCE_EXHAUSTED")
     \/ MsgIncludes(msg, "quota")
  THEN QuotaExceededMsg
  ELSE IF MsgIncludes(msg, "INVALID_ARGUMENT") THEN ConflictMsg
  ELSE msg

\* CatchBlock with a retry loop around the request: up to three invocations
CatchBlockRetry(msg, invoked) ==
  IF invoked < 3 THEN [retry |-> TRUE, msg |-> msg]
  ELSE [retry |-> FALSE, msg |-> ClassifyError(msg)]

\* What the catch block does with a failure, after `invoked` upstream
\* invocations: every path of it throws, none invokes the upstream again
CatchBlock(msg, invoked) == [retry |-> FALSE, msg |-> ClassifyError(msg)]

\* The upstream's answer to the n-th invocation of a call
ResponseAt(script, n) == script[IF n <= Len(script) THEN n ELSE Len(script)]

RECURSIVE Join(_, _)
\* words.join(sep), as the sequence of its pieces
Join(words, sep) ==
  IF Len(words) <= 1 THEN words
  ELSE <<words[1], sep>> \o Join(Tail(words), sep)

\* the number in "Find up to 15 verified leads"
LeadCap == 15

\* The template literal of the system instruction, as the sequence of its
\* fixed pieces and interpolated values
SystemInstruction(city, categoriesStr) ==
  <<"You are a professional business lead generator. Search for real businesses in \"",
    city, ", India\" matching \"">>
    \o categoriesStr
    \o <<"\". Use the googleSearch tool to verify their existence and contact details. You MUST provide your response strictly as a JSON array of objects.">>

\* The template literal of the prompt
Prompt(city, categoriesStr) ==
  <<"Find up to ", ToString(LeadCap), " verified leads for \"">>
    \o categoriesStr
    \o <<"\" in \"", city,
         "\". Return ONLY a valid JSON array. Each object must have: name, address, phone, website, email, rating, reviews_count, lat, lng, owner.">>

\* the categories the search form offers, in alphabetical order
BUSINESS_CATEGORIES == <<"Cafe", "Gym", "Salon">>

\* BuildRequest with the categories sorted alphabetically instead of kept in
\* the order given
BuildRequestSorted(query) ==
  LET Chosen(c) == \E i \in 1..Len(query.categories) : query.categories[i] = c
      categoriesStr == Join(SelectSeq(BUSINESS_CATEGORIES, Chosen), ", ")
  IN [k |-> "request",
      model |-> "gemini-3-flash-preview",
      contents |-> Prompt(query.city, categoriesStr),
      systemInstruction |-> SystemInstruction(query.city, categoriesStr),
      tools |-> <<"googleSearch">>]

\* The argument of ai.models.generateContent, built from the query
BuildRequest(query) ==
  LET categoriesStr == Join(query.categories, ", ")
  IN [k |-> "request",
      model |-> "gemini-3-flash-preview",
      contents |-> Prompt(query.city, categoriesStr),
      systemInstruction |-> SystemInstruction(query.city, categoriesStr),
      tools |-> <<"googleSearch">>]

\* A call of findBusinessLeads that has not run yet: its query, the upstream's
\* answers to its successive invocations (script), the request it sends and
\* the clock its map callback reads
NewCall(query, script) ==
  [pc |-> "new", invoked |-> 0, query |-> query, request |-> Null,
   script |-> script, clock |-> <<>>, leads |-> <<>>, msg |-> <<>>]

\* The call up to its await: the credential check, then the upstream request
FindStart(key, c) ==
  IF KeyMissing(key)
  THEN [c EXCEPT !.pc = "thrown", !.msg = ApiKeyMissingMsg]
  ELSE [c EXCEPT !.pc = "awaiting", !.invoked = 1,
                 !.request = BuildRequest(c.query)]

\* The call from the settling of its upstream request to its return or throw
FindSettle(c) ==
  LET r == TryBody(ResponseAt(c.script, c.invoked), c.clock)
  IN IF ~r.threw THEN [c EXCEPT !.pc = "returned", !.leads = r.leads]
     ELSE LET a == CatchBlock(r.msg, c.invoked)
          IN IF a.retry THEN [c EXCEPT !.invoked = @ + 1]
             ELSE [c EXCEPT !.pc = "thrown", !.msg = a.msg]

\* calculateDistance on whole degrees.  The result stands for R * c by the
\* haversine term a in millionths, with sin(x/2)^2 taken as (x/2)^2 and cos in
\* percent as 100 - 152 x^2 / 10000: zero exactly where a is zero
CosPercent(deg) == 100 - ((152 * deg * deg) \div 10000)

\* calculateDistance with the cosine of the first latitude taken twice
calculateDistanceOneCosine(lat1, lon1, lat2, lon2) ==
  IF lat1 = 0 \/ lon1 = 0 \/ lat2 = 0 \/ lon2 = 0 THEN 0
  ELSE LET dLat == lat2 - lat1
           dLon == lon2 - lon1
       IN (76 * (10000 * dLat * dLat
                 + CosPercent(lat1) * CosPercent(lat1) * dLon * dLon)) \div 10000

calculateDistance(lat1, lon1, lat2, lon2) ==
  IF lat1 = 0 \/ lon1 = 0 \/ lat2 = 0 \/ lon2 = 0 THEN 0
  ELSE LET dLat == lat2 - lat1
           dLon == lon2 - lon1
       IN (76 * (10000 * dLat * dLat
                 + CosPercent(lat1) * CosPercent(lat2) * dLon * dLon)) \div 10000

----------------------------------------------------------------------------
(* Inputs *)

Ok(text) == [ok |-> TRUE, text |-> text]

Fail(msg) == [ok |-> FALSE, msg |-> msg]

RECURSIVE SeqsUpTo(_, _)
\* every sequence over S of length at most n
SeqsUpTo(S, n) ==
  IF n = 0 THEN {<<>>}
  ELSE LET shorter == SeqsUpTo(S, n - 1)
       IN shorter \cup {Append(q, x) : q \in {r \in shorter : Len(r) = n - 1}, x \in S}

\* the values Date.now() takes at the n items of a batch: it never runs back
Clocks(n) ==
  {c \in [1..n -> 1..MaxTime] : \A i \in 1..n, j \in 1..n : i <= j => c[i] <= c[j]}

RECURSIVE ArrayText(_)
\* the text of a JSON array holding the given element tokens
ArrayText(items) ==
  IF items = <<>> THEN <<"[", "]">>
  ELSE IF Len(items) = 1 THEN <<"[", items[1], "]">>
  ELSE <<"[", items[1], ",">> \o Tail(ArrayText(Tail(items)))

\* largest batch written out as an array text
MaxBatch == 3

\* the tokens the free-form texts are drawn from
FreeTokens == Tokens \ {"o2", "o3", "o4", "7", "\""}

\* the texts that are one string literal, of brackets and other characters
StringTexts ==
  {<<"\"">> \o c \o <<"\"">> : c \in SeqsUpTo({"[", "]", "x"}, MaxTextLen - 2)}

\* the raw texts the upstream answers with: every short text, every array
\* of at most MaxBatch candidates, numbers or nulls, and the string literals
Texts ==
  SeqsUpTo(FreeTokens, MaxTextLen)
    \cup {ArrayText(b) : b \in SeqsUpTo(ObjectTokens \cup {"null", "7"}, MaxBatch)}
    \cup StringTexts

\* the messages of the errors the upstream call fails with
QuotaMsg == <<"429", "RESOURCE_EXHAUSTED">>

UpstreamErrors ==
  {QuotaMsg, <<"quota">>, <<"400", "INVALID_ARGUMENT">>,
   <<"429", "INVALID_ARGUMENT">>, <<"fetch", "failed">>, <<>>}

\* an upstream that fails twice on its quota and then answers
QuotaTwiceThenOk == <<Fail(QuotaMsg), Fail(QuotaMsg), Ok(<<"[", "o1", "]">>)>>

PipelineScripts ==
  {<<Ok(t)>> : t \in Texts} \cup {<<Fail(m)>> : m \in UpstreamErrors}
    \cup {QuotaTwiceThenOk}

\* the queries findBusinessLeads is called with: a well-formed one, one with
\* an empty city, one with no category
PipelineQueries ==
  {[city |-> "Pune", categories |-> <<"Gym", "Cafe">>, radius |-> 25],
   [city |-> "", categories |-> <<"Gym">>, radius |-> 25],
   [city |-> "Pune", categories |-> <<>>, radius |-> 25]}

\* the clocks of a batch normalized within one millisecond
SteadyClocks(n) == {c \in Clocks(n) : \A i \in 1..n : c[i] = c[1]}

\* how often the map callback of a call reads the clock
ClockReads(c) ==
  LET resp == ResponseAt(c.script, c.invoked)
  IN IF resp.ok /\ ExtractResults(resp.text).ok
     THEN Len(ExtractResults(resp.text).results) ELSE 0

----------------------------------------------------------------------------
(* State *)

VARIABLES
  apiKey,          \* process.env.API_KEY
  userCoords,      \* App: the geolocation fix, or null
  loading,         \* App: a search is shown as running
  error,           \* App: the message shown (a string of words), or null
  leads,           \* App: the leads shown
  progress,        \* App: the progress bar, in halves of a percent
  simulatedLeads,  \* App: the counter under the progress bar
  lastQuery,       \* App: the query of the latest search, or null
  isSearchModalOpen, \* App: the search form is shown
  calls,           \* the performSearch invocations so far, in start order
  job,             \* one findBusinessLeads call run on its own
  sample,          \* views: the field value a cell or a popup is rendered for
  verdict,         \* views: what the validators of the rendering view said
  form,            \* SearchModal: city, radius, selectedCategories
  submitted,       \* SearchModal: the arguments of the last onSearch call
  sortKey,         \* LeadTable: the column sorted by
  sortOrder,       \* LeadTable: "asc" or "desc"
  sortedLeads,     \* LeadTable: the memoized sorted copy of the leads
  geoArgs,         \* the arguments calculateDistance is applied to
  geoResult,       \* what calculateDistance returned for them
  user,            \* App: the user of the session, or null
  authForm,        \* App: the name and the email typed into the login form
  loginError,      \* App: the message of the login form, or null
  allUsers,        \* App: the user log as the administrator sees it
  localStorage,    \* the browser's store: easylead_user, easylead_all_users
  isAdminMode,     \* App: the administrator's dashboard is shown
  isAdminAuthOpen, \* App: the administrator's password form is shown
  adminPassword,   \* App: the password typed into that form
  adminError,      \* App: the message of that form, or null
  ticks            \* how often the progress interval has fired

\* the state of the views
viewVars == <<sample, verdict, form, submitted, sortKey, sortOrder, sortedLeads>>

\* the state of the session: the login, the user log, the administrator
sessionVars ==
  <<user, authForm, loginError, allUsers, localStorage, isAdminMode,
    isAdminAuthOpen, adminPassword, adminError>>

\* the state outside the search: the distance function on its own, the
\* session, the count of interval ticks
shellVars == <<geoArgs, geoResult, sessionVars, ticks>>

vars ==
  <<apiKey, userCoords, loading, error, leads, progress, simulatedLeads,
    lastQuery, isSearchModalOpen, calls, job, viewVars, shellVars>>

appVars ==
  <<userCoords, loading, error, leads, progress, simulatedLeads, lastQuery,
    isSearchModalOpen, calls, viewVars, shellVars>>

\* the search form as mounted: no city, radius 25, no category
FormInitial == [city |-> "", radius |-> 25, selectedCategories |-> <<>>]

\* the views as mounted, before any lead is shown and any input is made
ViewsInit ==
  /\ sample = Null
  /\ verdict = Null
  /\ form = FormInitial
  /\ submitted = Null
  /\ sortKey = "distance"
  /\ sortOrder = "asc"
  /\ sortedLeads = <<>>

\* the login form as mounted
AuthFormInitial == [name |-> <<>>, email |-> <<>>]

\* a browser store that holds none of the two items
EmptyStorage == [easylead_user |-> Null, easylead_all_users |-> Null]

\* JSON.stringify of a user or of a user log, as localStorage keeps it, and
\* JSON.parse of an item read back: a stored item is a text, never the value
JSON_stringify(v) == [k |-> "json", of |-> v]

JSON_parse(item) == item.of

\* the person signed in when a search is made
SearchingUser ==
  [name |-> <<"A", "n", "n">>,
   email |-> <<"a", "@", "g", "m", "a", "i", "l", ".", "c", "o", "m">>]

\* the state outside the search as mounted: the distance function not
\* applied, the two forms empty, no tick yet
ShellInit ==
  /\ geoArgs = Null
  /\ geoResult = Null
  /\ authForm = AuthFormInitial
  /\ loginError = Null
  /\ isAdminMode = FALSE
  /\ isAdminAuthOpen = FALSE
  /\ adminPassword = ""
  /\ adminError = Null
  /\ ticks = 0

\* nobody is signed in and nothing is stored
NoSession ==
  /\ user = Null
  /\ allUsers = <<>>
  /\ localStorage = EmptyStorage

\* the mount effect found a stored user and the log that holds them
SignedIn ==
  /\ user = SearchingUser
  /\ allUsers = <<SearchingUser>>
  /\ localStorage = [easylead_user |-> JSON_stringify(SearchingUser),
                     easylead_all_users |-> JSON_stringify(<<SearchingUser>>)]

----------------------------------------------------------------------------
(* findBusinessLeads on its own *)

PipelineInit ==
  /\ apiKey \in ApiKeys
  /\ job \in {NewCall(q, sc) : q \in PipelineQueries, sc \in PipelineScripts}
  /\ userCoords = Null
  /\ loading = FALSE
  /\ error = Null
  /\ leads = <<>>
  /\ progress = 0
  /\ simulatedLeads = 0
  /\ lastQuery = Null
  /\ isSearchModalOpen = FALSE
  /\ calls = <<>>
  /\ ViewsInit
  /\ ShellInit
  /\ NoSession

\* the caller invokes findBusinessLeads: it runs to its await, or throws
JobStart ==
  /\ job.pc = "new"
  /\ job' = FindStart(apiKey, job)
  /\ UNCHANGED <<apiKey, appVars>>

\* the upstream call settles and the rest of findBusinessLeads runs
JobSettle ==
  /\ job.pc = "awaiting"
  /\ \E clock \in Clocks(ClockReads(job)) :
       job' = FindSettle([job EXCEPT !.clock = clock])
  /\ UNCHANGED <<apiKey, appVars>>

PipelineNext == JobStart \/ JobSettle

SpecPipeline == PipelineInit /\ [][PipelineNext]_vars

----------------------------------------------------------------------------
(* Properties of findBusinessLeads *)

JobDone == job.pc \in {"returned", "thrown"}

\* the upstream answer the call consumed last
JobResponse == ResponseAt(job.script, job.invoked)

\* the candidates extracted from the answer of a call that got a parseable text
JobCandidates == ExtractResults(JobResponse.text).results

JobExtracted == job.invoked >= 1 /\ JobResponse.ok /\ ExtractResults(JobResponse.text).ok

\* the message of the failure the first upstream invocation ends in, after
\* classification; <<>> when the first response parses
FirstFailure(script) ==
  IF ~script[1].ok THEN ClassifyError(script[1].msg)
  ELSE IF ~ExtractResults(script[1].text).ok THEN ParseErrorMsg
  ELSE <<>>

\* C2: when the upstream fails twice with a quota error and then succeeds, the
\* call returns the success result after exactly 3 upstream invocations
C2_QuotaRetriedToSuccess ==
  (~KeyMissing(apiKey) /\ job.script = QuotaTwiceThenOk /\ JobDone)
    => (job.pc = "returned" /\ Len(job.leads) = 1 /\ job.invoked = 3)

\* C3: a failure classified as non-retryable (credential missing, invalid
\* argument, parse error) is propagated after the first failure: the call
\* throws that failure and has invoked the upstream at most once
C3_NonRetryablePropagates ==
  /\ (job.pc # "new" /\ KeyMissing(apiKey))
       => (job.pc = "thrown" /\ job.msg = ApiKeyMissingMsg /\ job.invoked = 0)
  /\ (job.pc # "new" /\ ~KeyMissing(apiKey)
        /\ FirstFailure(job.script) \in {ConflictMsg, ParseErrorMsg})
       => /\ job.invoked = 1
          /\ job.pc # "returned"
          /\ job.pc = "thrown" => job.msg = FirstFailure(job.script)

C3_Witness ==
  /\ job.pc = "thrown" /\ job.invoked = 1
  /\ job.msg = ConflictMsg
  /\ job.script = <<Fail(<<"400", "INVALID_ARGUMENT">>)>>

\* C4: with the credential absent, empty or the string "undefined", the call
\* fails with the credential-missing error, distinct from the other kinds, and
\* the upstream is never invoked
C4_MissingKeyNoUpstream ==
  (apiKey \in {KeyAbsent, KeyEmpty, KeyUndefinedString} /\ job.pc # "new")
    => /\ job.pc = "thrown"
       /\ job.msg = ApiKeyMissingMsg
       /\ job.invoked = 0
       /\ job.msg \notin {QuotaExceededMsg, ConflictMsg, ParseErrorMsg}

C4_Witness ==
  apiKey = KeyUndefinedString /\ job.pc = "thrown" /\ job.invoked = 0

\* no part of the text, from any position to any other, is valid JSON
NoJsonAnywhere(text) ==
  \A i \in 1..(Len(text) + 1), j \in 0..Len(text) : ~JsonParse(SubSeq(text, i, j)).ok

\* C6: for a raw text in which no valid JSON can be located, extraction fails
\* with the parse error, no leads are returned, and the parse error differs
\* from the quota, invalid-argument and credential failures
C6_UnparseableIsParseError ==
  (JobDone /\ job.invoked >= 1 /\ JobResponse.ok /\ NoJsonAnywhere(JobResponse.text))
    => /\ job.pc = "thrown"
       /\ job.msg = ParseErrorMsg
       /\ job.leads = <<>>
       /\ job.msg \notin {QuotaExceededMsg, ConflictMsg, ApiKeyMissingMsg}

C6_Witness ==
  /\ job.pc = "thrown" /\ job.msg = ParseErrorMsg
  /\ job.script = <<Ok(<<"x", "x">>)>>

\* C7: a batch of N extracted candidates normalizes to exactly N leads, in
\* input order, with pairwise distinct ids
C7_NormalizeKeepsEveryCandidate ==
  (JobDone /\ JobExtracted)
    => /\ job.pc = "returned"
       /\ Len(job.leads) = Len(JobCandidates)
       /\ \A i \in 1..Len(job.leads) :
            /\ job.leads[i].phone = OrElse(Field(JobCandidates[i], "phone"), Null)
            /\ \A j \in 1..Len(job.leads) :
                 i # j => job.leads[i].id # job.leads[j].id

\* C8: in every returned lead, phone is null or passes isPhoneValid, and email
\* and website are null or pass isValueValid
C8_ContactFieldsValidated ==
  job.pc = "returned"
    => \A i \in 1..Len(job.leads) :
         /\ job.leads[i].phone = Null \/ isPhoneValid(job.leads[i].phone)
         /\ job.leads[i].email = Null \/ isValueValid(job.leads[i].email)
         /\ job.leads[i].website = Null \/ isValueValid(job.leads[i].website)

\* a phone whose digits are 1234567890 or one repeated digit
IsPlaceholderPhone(v) ==
  /\ v.k = "string"
  /\ \/ OnlyDigits(v.s) = PhoneSequence.s
     \/ IsRepeating(OnlyDigits(v.s))

\* C9: a candidate whose phone is a known placeholder normalizes to a lead
\* with phone null
C9_PlaceholderPhoneDropped ==
  (job.pc = "returned" /\ JobExtracted)
    => \A i \in 1..Len(job.leads) :
         IsPlaceholderPhone(Field(JobCandidates[i], "phone"))
           => job.leads[i].phone = Null

----------------------------------------------------------------------------
(* The table view: components/LeadTable.tsx.  App renders it while it is   *)
(* not loading, shows no error and has leads; unmounting drops its state   *)

\* the characters in the order localeCompare puts them: blank, punctuation,
\* digits, letters
CollationOrder ==
  <<" ", "-", ".", "/", "@", "+">> \o DigitChars \o LowerChars

CollationRank(c) ==
  IF \E i \in 1..Len(CollationOrder) : CollationOrder[i] = c
  THEN CHOOSE i \in 1..Len(CollationOrder) : CollationOrder[i] = c
  ELSE 0

RECURSIVE localeCompare(_, _)
\* strA.localeCompare(strB) on lower-case strings: negative, 0 or positive
localeCompare(strA, strB) ==
  IF strA = <<>> /\ strB = <<>> THEN 0
  ELSE IF strA = <<>> THEN -1
  ELSE IF strB = <<>> THEN 1
  ELSE IF CollationRank(strA[1]) # CollationRank(strB[1])
       THEN CollationRank(strA[1]) - CollationRank(strB[1])
  ELSE localeCompare(Tail(strA), Tail(strB))

\* a[sortKey] ?? 0
SortValue(lead, key) ==
  IF lead[key].k \in {"null", "undefined"} THEN Num(0) ELSE lead[key]

\* the comparator handed to sort
CompareLeads(a, b, key, order) ==
  LET valA == SortValue(a, key)
      valB == SortValue(b, key)
  IN IF valA.k = "number" /\ valB.k = "number"
     THEN (IF order = "asc" THEN valA.n - valB.n ELSE valB.n - valA.n)
     ELSE LET strA == ToLowerCase(ToStr(OrElse(valA, Str(<<>>))))
              strB == ToLowerCase(ToStr(OrElse(valB, Str(<<>>))))
          IN IF order = "asc" THEN localeCompare(strA, strB)
             ELSE localeCompare(strB, strA)

\* x put into a sorted sequence, behind the elements it does not precede
InsertLead(sorted, x, key, order) ==
  LET after == {i \in 1..Len(sorted) : CompareLeads(sorted[i], x, key, order) > 0}
      at == IF after = {} THEN Len(sorted) + 1
            ELSE CHOOSE i \in after : \A j \in after : i <= j
  IN SubSeq(sorted, 1, at - 1) \o <<x>> \o SubSeq(sorted, at, Len(sorted))

RECURSIVE SortedBy(_, _, _)
\* Array.prototype.sort with the comparator: a stable sort
SortedBy(list, key, order) ==
  IF list = <<>> THEN <<>>
  ELSE InsertLead(SortedBy(SubSeq(list, 1, Len(list) - 1), key, order),
                  list[Len(list)], key, order)

\* the memo callback sorting the leads array itself, without the copy
SortLeadsInPlace(list, key, order) ==
  [leads |-> SortedBy(list, key, order), sortedLeads |-> SortedBy(list, key, order)]

\* The useMemo callback, [...leads].sort(...): the array it was given, as it
\* is afterwards, and the sorted array it returns
SortLeads(list, key, order) ==
  [leads |-> list, sortedLeads |-> SortedBy(list, key, order)]

\* <LeadTable leads={leads} /> is in the rendered tree
TableMountedIn(isLoading, err, list) == ~isLoading /\ err = Null /\ Len(list) > 0

\* App renders with the given loading, error and leads: the table, when it is
\* in the tree, keeps its sort state if it was there before and starts with
\* the initial one if not; the leads array after the render, and the state
\* of the table
RenderLeadTable(was, isLoading, err, list, key, order) ==
  IF ~TableMountedIn(isLoading, err, list)
  THEN [leads |-> list, sortKey |-> "distance", sortOrder |-> "asc",
        sortedLeads |-> <<>>]
  ELSE LET k == IF was THEN key ELSE "distance"
           o == IF was THEN order ELSE "asc"
           m == SortLeads(list, k, o)
       IN [leads |-> m.leads, sortKey |-> k, sortOrder |-> o,
           sortedLeads |-> m.sortedLeads]

----------------------------------------------------------------------------
(* The search state of the application: App.tsx.  The callback of the      *)
(* progress interval of the effect on [loading] runs under SpecProgress    *)
(* only; the ticker interval writes nothing but its message.               *)
(* The table is rendered with the leads, but under Spec its headers are    *)
(* not clicked and the search form submits one fixed query; the form and   *)
(* the validators have specifications of their own.                       *)

\* the query the search form submits
Queries == {[city |-> "Pune", categories |-> <<"Gym", "Cafe">>, radius |-> 25]}

\* the positions the geolocation callback reports, in whole degrees; the
\* second lies on the equator
UserPositions == {[lat |-> 18, lng |-> 74], [lat |-> 0, lng |-> 74]}

\* the upstream behaviours of a search: two leads (the second at
\* latitude 0), no lead, an unparseable text, a quota failure, a failure
\* without a message
AppScripts ==
  {<<Ok(<<"[", "o1", ",", "o3", "]">>)>>, <<Ok(<<"[", "]">>)>>, <<Ok(<<"x">>)>>,
   <<Fail(QuotaMsg)>>, <<Fail(<<>>)>>}

DefaultErrorMsg ==
  <<"Something went wrong while fetching leads. Please check your internet connection and try again.">>

\* err.message || "Something went wrong ..."
ErrMessage(msg) == IF msg # <<>> THEN msg ELSE DefaultErrorMsg

\* `No verified results found for "${searchCategories.join(", ")}" in ${searchCity}. ...`
NoResultsMsg(q) ==
  <<"No verified results found for">> \o q.categories \o <<"in", q.city>>

\* a value of the progress bar: the bar moves in steps of 1.5 and of 0.5
\* percent, so it is kept in halves of a percent
Percent(p) == 2 * p

\* AnnotateDistance without the test of userCoords: the distance is taken from
\* the origin when there is no position
AnnotateDistanceNoCoordsTest(coords, lead) ==
  IF Truthy(lead.lat) /\ Truthy(lead.lng)
  THEN [lead EXCEPT !.distance =
          Num(IF coords = Null THEN 0
              ELSE calculateDistance(coords.lat, coords.lng, lead.lat.n, lead.lng.n))]
  ELSE lead

\* the callback of (results || []).map in performSearch
AnnotateDistance(coords, lead) ==
  IF coords # Null /\ Truthy(lead.lat) /\ Truthy(lead.lng)
  THEN [lead EXCEPT !.distance =
          Num(calculateDistance(coords.lat, coords.lng, lead.lat.n, lead.lng.n))]
  ELSE lead

Init ==
  /\ apiKey \in ApiKeys
  /\ userCoords = Null
  /\ loading = FALSE
  /\ error = Null
  /\ leads = <<>>
  /\ progress = 0
  /\ simulatedLeads = 0
  /\ lastQuery = Null
  /\ isSearchModalOpen = FALSE
  /\ calls = <<>>
  /\ job = NewCall(Null, <<>>)
  /\ ViewsInit
  /\ ShellInit
  /\ SignedIn

\* navigator.geolocation.getCurrentPosition reports the position, once
SetUserCoords(pos) ==
  /\ userCoords = Null
  /\ userCoords' = pos
  /\ UNCHANGED <<apiKey, loading, error, leads, progress, simulatedLeads,
                 lastQuery, isSearchModalOpen, calls, job, viewVars,
                 shellVars>>

\* a click on "New Lead Search" or "Launch Search": the search form opens
OpenSearchModal ==
  /\ ~isSearchModalOpen
  /\ isSearchModalOpen' = TRUE
  /\ UNCHANGED <<apiKey, userCoords, loading, error, leads, progress,
                 simulatedLeads, lastQuery, calls, job, viewVars, shellVars>>

\* onClose of the search form
CloseSearchModal ==
  /\ isSearchModalOpen
  /\ isSearchModalOpen' = FALSE
  /\ UNCHANGED <<apiKey, userCoords, loading, error, leads, progress,
                 simulatedLeads, lastQuery, calls, job, viewVars, shellVars>>

\* The search form submits a query (onSearch): performSearch up to its await.
\* findBusinessLeads runs to its own await; a
\* missing credential makes it throw at once, and the catch block runs before
\* any other task.  The effect on [loading] resets the progress and the
\* counter when loading turns from false to true
StartSearch(q, script) ==
  /\ isSearchModalOpen
  /\ Len(calls) < MaxSearches
  /\ isSearchModalOpen' = FALSE
  /\ LET f == FindStart(apiKey, NewCall(q, script))
         failed == f.pc = "thrown"
     IN /\ calls' = Append(calls, [find |-> f, coords |-> userCoords, query |-> q,
                                   ps |-> IF failed THEN "done" ELSE "awaiting",
                                   processed |-> <<>>])
        /\ loading' = ~failed
        /\ error' = IF failed THEN Str(ErrMessage(f.msg)) ELSE Null
  /\ \E r \in {RenderLeadTable(TableMountedIn(loading, error, leads),
                              loading', error', <<>>, sortKey, sortOrder)} :
       /\ leads' = r.leads
       /\ sortKey' = r.sortKey
       /\ sortOrder' = r.sortOrder
       /\ sortedLeads' = r.sortedLeads
  /\ lastQuery' = [city |-> q.city, categories |-> q.categories]
  /\ progress' = IF loading THEN progress ELSE 0
  /\ simulatedLeads' = IF loading THEN simulatedLeads ELSE 0
  /\ UNCHANGED <<apiKey, userCoords, job, sample, verdict, form, submitted,
                 shellVars>>

\* performSearch i after its await, findBusinessLeads having ended as f: the
\* search waits for its timer with the processed leads, or has failed
ResumeSearch(s, f) ==
  CASE f.pc = "returned" ->
         [s EXCEPT !.find = f, !.ps = "timer",
                   !.processed = [j \in 1..Len(f.leads) |->
                                    AnnotateDistance(s.coords, f.leads[j])]]
    [] f.pc = "thrown" -> [s EXCEPT !.find = f, !.ps = "done"]
    [] OTHER -> [s EXCEPT !.find = f]

\* The upstream call of search i settles: findBusinessLeads runs to its end
\* and performSearch resumes, either to the setTimeout or in its catch block
SettleSearch(i) ==
  /\ calls[i].ps = "awaiting"
  /\ \E clock \in SteadyClocks(ClockReads(calls[i].find)) :
       calls' = [calls EXCEPT ![i] =
                   ResumeSearch(@, FindSettle([@.find EXCEPT !.clock = clock]))]
  /\ progress' = IF calls'[i].ps = "timer" THEN Percent(100) ELSE progress
  /\ simulatedLeads' = IF calls'[i].ps = "timer" THEN Len(calls'[i].processed)
                       ELSE simulatedLeads
  /\ error' = IF calls'[i].find.pc = "thrown"
              THEN Str(ErrMessage(calls'[i].find.msg))
              ELSE error
  /\ loading' = IF calls'[i].find.pc = "thrown" THEN FALSE ELSE loading
  /\ \E r \in {RenderLeadTable(TableMountedIn(loading, error, leads),
                              loading', error', leads, sortKey, sortOrder)} :
       /\ leads' = r.leads
       /\ sortKey' = r.sortKey
       /\ sortOrder' = r.sortOrder
       /\ sortedLeads' = r.sortedLeads
  /\ UNCHANGED <<apiKey, userCoords, lastQuery, isSearchModalOpen, job,
                 sample, verdict, form, submitted, shellVars>>

\* CommitTimer without its setLoading(false)
CommitTimerKeepsLoading(i) ==
  /\ calls[i].ps = "timer"
  /\ loading' = loading
  /\ error' = IF Len(calls[i].processed) = 0
              THEN Str(NoResultsMsg(calls[i].query))
              ELSE error
  /\ \E r \in {RenderLeadTable(TableMountedIn(loading, error, leads),
                              loading', error', calls[i].processed,
                              sortKey, sortOrder)} :
       /\ leads' = r.leads
       /\ sortKey' = r.sortKey
       /\ sortOrder' = r.sortOrder
       /\ sortedLeads' = r.sortedLeads
  /\ calls' = [calls EXCEPT ![i] = [@ EXCEPT !.ps = "done"]]
  /\ UNCHANGED <<apiKey, userCoords, progress, simulatedLeads, lastQuery,
                 isSearchModalOpen, job, sample, verdict, form, submitted,
                 shellVars>>

\* the setTimeout callback of search i, 800 ms after its results arrived
CommitTimer(i) ==
  /\ calls[i].ps = "timer"
  /\ loading' = FALSE
  /\ error' = IF Len(calls[i].processed) = 0
              THEN Str(NoResultsMsg(calls[i].query))
              ELSE error
  /\ \E r \in {RenderLeadTable(TableMountedIn(loading, error, leads),
                              loading', error', calls[i].processed,
                              sortKey, sortOrder)} :
       /\ leads' = r.leads
       /\ sortKey' = r.sortKey
       /\ sortOrder' = r.sortOrder
       /\ sortedLeads' = r.sortedLeads
  /\ calls' = [calls EXCEPT ![i] = [@ EXCEPT !.ps = "done"]]
  /\ UNCHANGED <<apiKey, userCoords, progress, simulatedLeads, lastQuery,
                 isSearchModalOpen, job, sample, verdict, form, submitted,
                 shellVars>>

Next ==
  \/ \E pos \in UserPositions : SetUserCoords(pos)
  \/ OpenSearchModal
  \/ CloseSearchModal
  \/ \E q \in Queries, script \in AppScripts : StartSearch(q, script)
  \/ \E i \in 1..Len(calls) : SettleSearch(i)
  \/ \E i \in 1..Len(calls) : CommitTimer(i)

Spec == Init /\ [][Next]_vars

----------------------------------------------------------------------------
(* Properties of the search state *)

\* search i takes a step while a later search has already started, and the
\* step writes leads, loading or error
StaleWrite(i) ==
  /\ i < Len(calls)
  /\ calls'[i] # calls[i]
  /\ <<leads, loading, error>>' # <<leads, loading, error>>

\* C1: once a newer search has started, the result or failure of an earlier
\* search, and its delayed commit, write none of leads, loading and error
C1_StaleResultDiscarded ==
  [][\A i \in 1..Len(calls) : ~StaleWrite(i)]_vars

\* C5: a search that ends with zero leads ends in success: error is null and
\* the lead list is empty
C5_ZeroLeadsIsSuccess ==
  (/\ Len(calls) = 1
   /\ calls[1].ps = "done"
   /\ calls[1].find.pc = "returned"
   /\ Len(calls[1].processed) = 0)
    => (error = Null /\ leads = <<>>)

\* C10: after a successful search that had a reference coordinate, every lead
\* with non-zero lat and lng has the distance computed from that coordinate;
\* without a reference coordinate every distance is null
C10_DistanceFromReference ==
  \A i \in 1..Len(calls) :
    (calls[i].find.pc = "returned" /\ calls[i].ps \in {"timer", "done"})
      => /\ Len(calls[i].processed) = Len(calls[i].find.leads)
         /\ \A j \in 1..Len(calls[i].processed) :
              LET lead == calls[i].processed[j]
                  ref == calls[i].coords
              IN /\ (ref # Null /\ lead.lat.n # 0 /\ lead.lng.n # 0)
                      => /\ lead.distance # Null
                         /\ lead.distance =
                              Num(calculateDistance(ref.lat, ref.lng, lead.lat.n, lead.lng.n))
                 /\ ref = Null => lead.distance = Null

C10_Witness ==
  \E i \in 1..Len(calls) :
    /\ calls[i].ps = "done" /\ calls[i].coords # Null /\ calls[i].coords.lat # 0
    /\ leads = calls[i].processed
    /\ \E j \in 1..Len(leads) : leads[j].distance # Null /\ leads[j].distance.n > 0
    /\ \E j \in 1..Len(leads) : leads[j].distance = Null

----------------------------------------------------------------------------
(* Properties of normalization and of the classification of failures,      *)
(* under SpecPipeline                                                      *)

\* C11: normalization never raises: whatever the parsed candidates are (null,
\* a non-object, an object with missing or wrongly typed fields), the call
\* returns, with one lead per candidate carrying the default name and address
\* where the candidate has none
C11_NormalizationNeverRaises ==
  (JobDone /\ JobExtracted)
    => /\ job.pc = "returned"
       /\ job.msg # TypeErrorMsg
       /\ \A i \in 1..Len(JobCandidates) :
            /\ i <= Len(job.leads)
            /\ Truthy(job.leads[i].name)
            /\ Truthy(job.leads[i].address)

\* a value Number(...) converts: a number, or a string of digits
IsNumeric(v) ==
  \/ v.k = "number"
  \/ /\ v.k = "string"
     /\ Trim(v.s) # <<>>
     /\ \A i \in 1..Len(Trim(v.s)) : IsDigit(Trim(v.s)[i])

\* C12: in every lead returned, lat and lng are numbers, never NaN and never
\* absent, and they are 0 where the candidate's value is missing or not
\* numeric
C12_CoordinatesAlwaysNumbers ==
  job.pc = "returned"
    => \A i \in 1..Len(job.leads) :
         /\ job.leads[i].lat.k = "number"
         /\ job.leads[i].lng.k = "number"
         /\ ~IsNumeric(Field(JobCandidates[i], "lat")) => job.leads[i].lat = Num(0)
         /\ ~IsNumeric(Field(JobCandidates[i], "lng")) => job.leads[i].lng = Num(0)

C12_Witness ==
  /\ job.pc = "returned"
  /\ \E i \in 1..Len(job.leads) :
       /\ Field(JobCandidates[i], "lat") = Undef
       /\ Field(JobCandidates[i], "lng") = Str(<<"e">>)
       /\ job.leads[i].lat = Num(0) /\ job.leads[i].lng = Num(0)
  /\ \E i \in 1..Len(job.leads) : job.leads[i].lat = Num(19)
  /\ \E i \in 1..Len(job.leads) : JobCandidates[i] = Num(7)

\* the messages of the five classified kinds of failure, as the presentation
\* layer shows them: credential missing, parse error, quota exceeded, invalid
\* argument, and the transport failure shown for an error without a message
ClassifiedKinds ==
  {ApiKeyMissingMsg, ParseErrorMsg, QuotaExceededMsg, ConflictMsg, DefaultErrorMsg}

\* C15: every failure of findBusinessLeads reaches the presentation layer as
\* one of the five classified kinds, never as the raw upstream or runtime
\* error
C15_EveryFailureClassified ==
  job.pc = "thrown" => ErrMessage(job.msg) \in ClassifiedKinds

\* the message holds "429", "RESOURCE_EXHAUSTED" or "quota"
HasRateLimitIndicator(msg) ==
  \E i \in 1..Len(msg) : msg[i] \in {"429", "RESOURCE_EXHAUSTED", "quota"}

\* C16: an upstream failure whose message holds a rate-limit indicator is
\* thrown as the quota-exceeded failure, which differs from the
\* invalid-argument and generic failures, also when the message holds
\* INVALID_ARGUMENT as well
C16_RateLimitIsQuotaExceeded ==
  (JobDone /\ job.invoked >= 1 /\ ~JobResponse.ok
     /\ HasRateLimitIndicator(JobResponse.msg))
    => /\ job.pc = "thrown"
       /\ job.msg = QuotaExceededMsg
       /\ ErrMessage(job.msg) \notin {ConflictMsg, DefaultErrorMsg, JobResponse.msg}

C16_Witness ==
  /\ job.pc = "thrown" /\ job.msg = QuotaExceededMsg
  /\ JobResponse = Fail(<<"429", "INVALID_ARGUMENT">>)

\* C17: a call with an empty city or with no category (the credential being
\* present) fails before any upstream invocation, with a failure that is none
\* of the other kinds
C17_EmptyQueryFailsFast ==
  (job.pc # "new" /\ job.query # Null /\ ~KeyMissing(apiKey)
     /\ (job.query.city = "" \/ job.query.categories = <<>>))
    => /\ job.pc = "thrown"
       /\ job.invoked = 0
       /\ job.msg \notin {ApiKeyMissingMsg, ParseErrorMsg, QuotaExceededMsg, ConflictMsg}

----------------------------------------------------------------------------
(* The field validators as the views apply them: a table cell of LeadTable *)
(* and a popup of MapView rendered for one field value                     *)

\* longest run of digits in a phone sample
MaxDigits == 16

\* number of leading letters of a keyword whose casing varies freely
CaseWindow == 3

\* String.prototype.toUpperCase on one character
ToUpperChar(c) ==
  IF \E j \in 1..26 : LowerChars[j] = c
  THEN UpperChars[CHOOSE j \in 1..26 : LowerChars[j] = c]
  ELSE c

\* the keyword with the letters at the given positions in upper case
Recase(k, upper) ==
  [i \in 1..Len(k) |-> IF i \in upper THEN ToUpperChar(k[i]) ELSE k[i]]

\* the noise keywords both views reject
NoiseKeywords == {MapView_invalidKeywords[i] : i \in 1..Len(MapView_invalidKeywords)}

\* the casings of a keyword the samples range over: every casing of its first
\* CaseWindow letters, and all upper case
Casings(k) ==
  {Recase(k, upper) :
     upper \in SUBSET (1..(IF Len(k) < CaseWindow THEN Len(k) ELSE CaseWindow))}
    \cup {Recase(k, 1..Len(k))}

\* leading and trailing whitespace
Pads == {<<>>, <<" ">>, <<"\t", " ">>}

\* a value around a keyword: a keyword in some casing, padded, alone or inside
\* a longer text
NoiseSamples ==
  {Str(l \o pre \o w \o post \o r) :
     l \in Pads, r \in Pads,
     pre \in {<<>>, <<"t", "e", "l", " ">>}, post \in {<<>>, <<"!">>},
     w \in UNION {Casings(k) : k \in NoiseKeywords}}

\* n digits, from a run of distinct digits or one digit repeated
DigitRun(n, repeated) ==
  [i \in 1..n |-> IF repeated THEN "5" ELSE DigitChars[((i * 7) % 10) + 1]]

\* phone numbers of 0 to MaxDigits digits, bare or written with a plus sign
\* and a blank
PhoneSamples ==
  {Str(run) : run \in {DigitRun(n, rep) : n \in 0..MaxDigits, rep \in BOOLEAN}}
    \cup {Str(<<"+">> \o SubSeq(run, 1, 2) \o <<" ">> \o SubSeq(run, 3, Len(run))) :
            run \in {DigitRun(n, rep) : n \in 2..MaxDigits, rep \in BOOLEAN}}

\* the values of a phone, email or website field of a lead
Samples ==
  {Null, Str(<<>>), EmailReal, WebReal, PhoneReal, PhoneSequence, PhoneRepeated,
   Str(<<"a", "b">>), Str(<<"a">>)}
    \cup NoiseSamples \cup PhoneSamples

ValidatorsInit ==
  /\ apiKey = KeyPresent
  /\ job = NewCall(Null, <<>>)
  /\ userCoords = Null
  /\ loading = FALSE
  /\ error = Null
  /\ leads = <<>>
  /\ progress = 0
  /\ simulatedLeads = 0
  /\ lastQuery = Null
  /\ isSearchModalOpen = FALSE
  /\ calls = <<>>
  /\ sample \in Samples
  /\ verdict = Null
  /\ form = FormInitial
  /\ submitted = Null
  /\ sortKey = "distance"
  /\ sortOrder = "asc"
  /\ sortedLeads = <<>>
  /\ ShellInit
  /\ SignedIn

\* LeadTable renders a cell for the value
RenderTableCell ==
  /\ verdict' = [view |-> "table", isValueValid |-> isValueValid(sample),
                 isPhoneValid |-> isPhoneValid(sample)]
  /\ UNCHANGED <<apiKey, userCoords, loading, error, leads, progress,
                 simulatedLeads, lastQuery, isSearchModalOpen, calls, job,
                 sample, form, submitted, sortKey, sortOrder, sortedLeads,
                 shellVars>>

\* MapView renders a popup for the value
RenderMapPopup ==
  /\ verdict' = [view |-> "map", isValueValid |-> MapView_isValueValid(sample),
                 isPhoneValid |-> MapView_isPhoneValid(sample)]
  /\ UNCHANGED <<apiKey, userCoords, loading, error, leads, progress,
                 simulatedLeads, lastQuery, isSearchModalOpen, calls, job,
                 sample, form, submitted, sortKey, sortOrder, sortedLeads,
                 shellVars>>

ValidatorsNext == RenderTableCell \/ RenderMapPopup

SpecValidators == ValidatorsInit /\ [][ValidatorsNext]_vars

\* the digits of a field value
SampleDigits == IF sample.k = "string" THEN OnlyDigits(sample.s) ELSE <<>>

\* C13: in both views, isPhoneValid(s) is true exactly when isValueValid(s)
\* holds and s has at least 8 and at most 15 digits that are not one digit
\* repeated
C13_PhoneValidExactly ==
  verdict # Null
    => (verdict.isPhoneValid
          <=> /\ verdict.isValueValid
              /\ Len(SampleDigits) >= 8
              /\ Len(SampleDigits) <= 15
              /\ ~(\A i \in 1..Len(SampleDigits) : SampleDigits[i] = SampleDigits[1]))

\* the value holds a noise keyword, in any casing, anywhere
HoldsNoise(v) ==
  /\ v.k = "string"
  /\ \E i \in 1..Len(v.s), j \in 1..Len(v.s) :
       ToLowerCase(SubSeq(v.s, i, j)) \in NoiseKeywords

\* C14: in both views isValueValid is false for every value that holds a noise
\* keyword (null, na, n/a, none, undefined, not available, missing, hidden,
\* private) in any casing, padded with whitespace or inside a longer text, and
\* for null and the empty string
C14_NoiseIsInvalid ==
  (verdict # Null /\ (sample = Null \/ sample = Str(<<>>) \/ HoldsNoise(sample)))
    => ~verdict.isValueValid

C14_Witness ==
  /\ verdict # Null /\ verdict.view = "map" /\ ~verdict.isValueValid
  /\ sample = Str(<<" ", "t", "e", "l", " ", "H", "i", "D", "d", "e", "n", "!", "\t", " ">>)

----------------------------------------------------------------------------
(* The search form: components/SearchModal.tsx.  The form keeps its state  *)
(* while it is closed; onSearch is performSearch, specified under Spec     *)

\* the cities the form offers
INDIA_CITIES == {"Pune", "Delhi"}

\* the range input: min, max and step
RadiusMin == 5

RadiusMax == 100

RadiusStep == 5

\* the values the range input is moved to: of the values it can report (min,
\* min + step, ..., max) both ends and their neighbours
RadiusValues ==
  {r \in RadiusMin..RadiusMax :
     /\ (r - RadiusMin) % RadiusStep = 0
     /\ r - RadiusMin <= RadiusStep \/ RadiusMax - r <= RadiusStep}

\* prev.includes(cat)
SeqIncludes(q, x) == \E i \in 1..Len(q) : q[i] = x

\* toggleCategory appending the category without the includes test
ToggledAlwaysAppend(prev, cat) == Append(prev, cat)

\* prev.includes(cat) ? prev.filter(c => c !== cat) : [...prev, cat]
Toggled(prev, cat) ==
  IF SeqIncludes(prev, cat)
  THEN SelectSeq(prev, LAMBDA c : c # cat)
  ELSE Append(prev, cat)

FormInit ==
  /\ apiKey = KeyPresent
  /\ job = NewCall(Null, <<>>)
  /\ userCoords = Null
  /\ loading = FALSE
  /\ error = Null
  /\ leads = <<>>
  /\ progress = 0
  /\ simulatedLeads = 0
  /\ lastQuery = Null
  /\ isSearchModalOpen = TRUE
  /\ calls = <<>>
  /\ ViewsInit
  /\ ShellInit
  /\ SignedIn

selectCity(c) ==
  /\ form' = [form EXCEPT !.city = c]
  /\ UNCHANGED <<apiKey, userCoords, loading, error, leads, progress,
                 simulatedLeads, lastQuery, isSearchModalOpen, calls, job,
                 sample, verdict, submitted, sortKey, sortOrder, sortedLeads,
                 shellVars>>

\* onChange of the range input: setRadius(parseInt(e.target.value))
setRadius(r) ==
  /\ form' = [form EXCEPT !.radius = r]
  /\ UNCHANGED <<apiKey, userCoords, loading, error, leads, progress,
                 simulatedLeads, lastQuery, isSearchModalOpen, calls, job,
                 sample, verdict, submitted, sortKey, sortOrder, sortedLeads,
                 shellVars>>

toggleCategory(cat) ==
  /\ form' = [form EXCEPT !.selectedCategories = Toggled(@, cat)]
  /\ UNCHANGED <<apiKey, userCoords, loading, error, leads, progress,
                 simulatedLeads, lastQuery, isSearchModalOpen, calls, job,
                 sample, verdict, submitted, sortKey, sortOrder, sortedLeads,
                 shellVars>>

\* "Clear All": setSelectedCategories([])
clearAllCategories ==
  /\ form' = [form EXCEPT !.selectedCategories = <<>>]
  /\ UNCHANGED <<apiKey, userCoords, loading, error, leads, progress,
                 simulatedLeads, lastQuery, isSearchModalOpen, calls, job,
                 sample, verdict, submitted, sortKey, sortOrder, sortedLeads,
                 shellVars>>

\* the submit handler: an alert and nothing else without a city or without a
\* category, otherwise onSearch(city, selectedCategories, radius)
handleSearch ==
  /\ submitted' =
       IF form.city = "" \/ Len(form.selectedCategories) = 0 THEN submitted
       ELSE [city |-> form.city, categories |-> form.selectedCategories,
             radius |-> form.radius]
  /\ UNCHANGED <<apiKey, userCoords, loading, error, leads, progress,
                 simulatedLeads, lastQuery, isSearchModalOpen, calls, job,
                 sample, verdict, form, sortKey, sortOrder, sortedLeads,
                 shellVars>>

FormNext ==
  \/ \E c \in INDIA_CITIES : selectCity(c)
  \/ \E r \in RadiusValues : setRadius(r)
  \/ \E i \in 1..Len(BUSINESS_CATEGORIES) : toggleCategory(BUSINESS_CATEGORIES[i])
  \/ clearAllCategories
  \/ handleSearch

SpecForm == FormInit /\ [][FormNext]_vars

\* the submitted query is well formed
SubmittedWellFormed ==
  submitted # Null
    => /\ submitted.city # ""
       /\ Len(submitted.categories) >= 1
       /\ \A i \in 1..Len(submitted.categories), j \in 1..Len(submitted.categories) :
            i # j => submitted.categories[i] # submitted.categories[j]
       /\ submitted.radius >= 5 /\ submitted.radius <= 100

\* the position of a category in a selection that holds it
PositionIn(q, x) == CHOOSE i \in 1..Len(q) : q[i] = x

\* a step keeps the selection in selection order: the categories that stay
\* keep their relative order, and a category that comes in comes last
SelectionOrderKept ==
  LET old == form.selectedCategories
      new == form.selectedCategories'
  IN /\ \A a \in 1..Len(new), b \in 1..Len(new) :
          (a < b /\ SeqIncludes(old, new[a]) /\ SeqIncludes(old, new[b]))
            => PositionIn(old, new[a]) < PositionIn(old, new[b])
     /\ \A a \in 1..Len(new) : ~SeqIncludes(old, new[a]) => a = Len(new)
     /\ submitted' # submitted => submitted'.categories = old

\* C18: every query the form submits has a non-empty city, a non-empty list
\* of categories without duplicates, kept in the order they were selected, and
\* a radius from 5 to 100, after any sequence of city selections, category
\* toggles, clear-all and radius changes
C18_SubmittedQueryWellFormed ==
  []SubmittedWellFormed /\ [][SelectionOrderKept]_vars

C18_Witness ==
  /\ submitted # Null
  /\ submitted.categories = <<"Salon", "Cafe">>
  /\ submitted.radius = 100
  /\ form.selectedCategories = <<>>

----------------------------------------------------------------------------
(* The application with the table view in use: searches, and clicks on the *)
(* column headers of the table while it is shown                           *)

\* the upstream behaviour of a search: three leads, of which the second has
\* no position and the third neither name nor position
TableScripts == {<<Ok(<<"[", "o1", ",", "o3", ",", "o4", "]">>)>>}

\* the columns with a sortable header
SortKeys == {"name", "rating", "distance"}

TableInit ==
  /\ apiKey = KeyPresent
  /\ userCoords = Null
  /\ loading = FALSE
  /\ error = Null
  /\ leads = <<>>
  /\ progress = 0
  /\ simulatedLeads = 0
  /\ lastQuery = Null
  /\ isSearchModalOpen = FALSE
  /\ calls = <<>>
  /\ job = NewCall(Null, <<>>)
  /\ ViewsInit
  /\ ShellInit
  /\ SignedIn

\* a click on a column header of the table, and the render that follows
toggleSort(key) ==
  /\ TableMountedIn(loading, error, leads)
  /\ \E r \in {RenderLeadTable(TRUE, loading, error, leads,
                              IF sortKey = key THEN sortKey ELSE key,
                              IF sortKey = key
                              THEN (IF sortOrder = "asc" THEN "desc" ELSE "asc")
                              ELSE "asc")} :
       /\ leads' = r.leads
       /\ sortKey' = r.sortKey
       /\ sortOrder' = r.sortOrder
       /\ sortedLeads' = r.sortedLeads
  /\ UNCHANGED <<apiKey, userCoords, loading, error, progress, simulatedLeads,
                 lastQuery, isSearchModalOpen, calls, job, sample, verdict,
                 form, submitted, shellVars>>

TableNext ==
  \/ \E pos \in UserPositions : SetUserCoords(pos)
  \/ OpenSearchModal
  \/ CloseSearchModal
  \/ \E q \in Queries, script \in TableScripts : StartSearch(q, script)
  \/ \E i \in 1..Len(calls) : SettleSearch(i)
  \/ \E i \in 1..Len(calls) : CommitTimer(i)
  \/ \E key \in SortKeys : toggleSort(key)

SpecTable == TableInit /\ [][TableNext]_vars

\* C19: a lead is not changed after normalization except for its distance:
\* the back-fill of a search changes no other field of any lead, and the
\* stored lead list is always the back-filled batch of a committed search, in
\* its order, however the table has been sorted
C19_LeadsImmutableButDistance ==
  /\ \A i \in 1..Len(calls) :
       (calls[i].find.pc = "returned" /\ calls[i].ps \in {"timer", "done"})
         => /\ Len(calls[i].processed) = Len(calls[i].find.leads)
            /\ \A j \in 1..Len(calls[i].processed) :
                 calls[i].processed[j] =
                   [calls[i].find.leads[j] EXCEPT
                      !.distance = calls[i].processed[j].distance]
  /\ \/ leads = <<>>
     \/ \E i \in 1..Len(calls) :
          /\ calls[i].ps = "done" /\ calls[i].find.pc = "returned"
          /\ leads = calls[i].processed
  /\ Len(sortedLeads) \in {0, Len(leads)}

C19_Witness ==
  /\ TableMountedIn(loading, error, leads)
  /\ sortKey = "distance" /\ sortOrder = "asc"
  /\ sortedLeads # leads
  /\ \E j \in 1..Len(leads) : leads[j].distance # Null
  /\ \E i \in 1..Len(calls) :
       /\ leads = calls[i].processed
       /\ calls[i].processed # calls[i].find.leads

----------------------------------------------------------------------------
(* The application searching with several queries: the requests that       *)
(* findBusinessLeads sends upstream                                        *)

\* the queries submitted: the same city and categories with two radii, and
\* the same categories in the other order
RequestQueries ==
  {[city |-> "Pune", categories |-> <<"Gym", "Cafe">>, radius |-> 25],
   [city |-> "Pune", categories |-> <<"Gym", "Cafe">>, radius |-> 100],
   [city |-> "Pune", categories |-> <<"Cafe", "Gym">>, radius |-> 25]}

\* the upstream answers with one lead
RequestScripts == {<<Ok(<<"[", "o1", "]">>)>>}

RequestNext ==
  \/ \E pos \in UserPositions : SetUserCoords(pos)
  \/ OpenSearchModal
  \/ CloseSearchModal
  \/ \E q \in RequestQueries, script \in RequestScripts : StartSearch(q, script)
  \/ \E i \in 1..Len(calls) : SettleSearch(i)
  \/ \E i \in 1..Len(calls) : CommitTimer(i)

SpecRequest == TableInit /\ [][RequestNext]_vars

\* the word is one of the categories
IsCategoryWord(w) == \E i \in 1..Len(BUSINESS_CATEGORIES) : BUSINESS_CATEGORIES[i] = w

\* the findBusinessLeads calls that have sent their request
SentCalls == {i \in 1..Len(calls) : calls[i].find.invoked >= 1}

\* C20: the upstream request is a function of the query's city and category
\* sequence: two calls with the same city and the same categories send the
\* same instruction and the same prompt; the categories stand in both in the
\* order given; and the prompt states a cap on the number of leads
C20_RequestDeterministic ==
  /\ \A i \in SentCalls, j \in SentCalls :
       (/\ calls[i].find.query.city = calls[j].find.query.city
        /\ calls[i].find.query.categories = calls[j].find.query.categories)
         => /\ calls[i].find.request.systemInstruction
                 = calls[j].find.request.systemInstruction
            /\ calls[i].find.request.contents = calls[j].find.request.contents
  /\ \A i \in SentCalls :
       /\ SelectSeq(calls[i].find.request.contents, IsCategoryWord)
            = calls[i].find.query.categories
       /\ SelectSeq(calls[i].find.request.systemInstruction, IsCategoryWord)
            = calls[i].find.query.categories
       /\ \E k \in 1..(Len(calls[i].find.request.contents) - 1) :
            /\ calls[i].find.request.contents[k] = "Find up to "
            /\ calls[i].find.request.contents[k + 1] \in {ToString(n) : n \in 1..100}

C20_Witness ==
  \E i \in SentCalls, j \in SentCalls :
    /\ calls[i].find.query.categories = calls[j].find.query.categories
    /\ calls[i].find.query.radius # calls[j].find.query.radius
    /\ calls[i].coords # calls[j].coords
    /\ calls[i].find.request = calls[j].find.request
    /\ calls[i].find.pc = "returned"

----------------------------------------------------------------------------
(* Properties of the extraction, under SpecPipeline                        *)

\* the call has run its extraction on an answer of the upstream
JobAnswered == JobDone /\ job.invoked >= 1 /\ JobResponse.ok

\* C22: when the slice from the first "[" to the last "]" does not parse, the
\* whole text is parsed instead, so the extraction fails with the parse error
\* only if the whole text does not parse either
C22_WholeTextFallback ==
  (JobAnswered /\ JsonParse(JobResponse.text).ok)
    => ~(job.pc = "thrown" /\ job.msg = ParseErrorMsg)

\* text[i..j] is a JSON array, and what stands around it is prose: the
\* array is the whole text, or the text as a whole is no JSON value
ArrayInProse(text, i, j) ==
  /\ i < j
  /\ text[i] = "["
  /\ JsonParse(SubSeq(text, i, j)).ok
  /\ (i = 1 /\ j = Len(text)) \/ ~JsonParse(text).ok

\* the prose before text[i..j] holds no "[" and the prose after it no "]"
NoBracketAround(text, i, j) ==
  /\ \A m \in 1..(i - 1) : text[m] # "["
  /\ \A m \in (j + 1)..Len(text) : text[m] # "]"

\* the call returned the elements of the array text[i..j], normalized in
\* order, or failed on a null among them
ReturnedElementsOf(text, i, j) ==
  LET elems == JsonParse(SubSeq(text, i, j)).v.a
  IN /\ JobExtracted
     /\ JobCandidates = elems
     /\ (\A m \in 1..Len(elems) : ~ItemThrows(elems[m]))
          => /\ job.pc = "returned"
             /\ Len(job.leads) = Len(elems)
             /\ \A m \in 1..Len(elems) :
                  job.leads[m] = NormalizeItem(elems[m], m - 1, job.clock[m])

\* C23 as claimed: every raw text that is a valid JSON array surrounded by
\* arbitrary prose yields the elements of that array, in order
C23_ArrayInAnyProse ==
  JobAnswered
    => \A i \in 1..Len(JobResponse.text), j \in 1..Len(JobResponse.text) :
         ArrayInProse(JobResponse.text, i, j)
           => ReturnedElementsOf(JobResponse.text, i, j)

\* C23 as amended: every raw text that is a valid JSON array surrounded by
\* prose with no "[" before the array and no "]" after it yields the
\* elements of that array, in order
C23_ArrayInBracketFreeProse ==
  JobAnswered
    => \A i \in 1..Len(JobResponse.text), j \in 1..Len(JobResponse.text) :
         (ArrayInProse(JobResponse.text, i, j) /\ NoBracketAround(JobResponse.text, i, j))
           => ReturnedElementsOf(JobResponse.text, i, j)

C23_Witness ==
  /\ job.pc = "returned"
  /\ job.script = <<Ok(<<"x", "[", "o1", "]">>)>>
  /\ Len(job.leads) = 1
  /\ job.leads[1].name = NameA

\* C24: a parsed value that is a single object yields one lead; a parsed
\* null and an empty response yield no lead and the call returns, it does
\* not fail
C24_SingleWrappedEmptyIsNoLead ==
  JobAnswered
    => LET whole == JsonParse(JobResponse.text)
       IN /\ (whole.ok /\ whole.v.k = "object")
               => /\ job.pc = "returned"
                  /\ job.leads = <<NormalizeItem(whole.v, 0, job.clock[1])>>
          /\ ((whole.ok /\ whole.v = Null) \/ JobResponse.text = <<>>)
               => /\ job.pc = "returned"
                  /\ job.leads = <<>>


----------------------------------------------------------------------------
(* Properties of the search state under overlapping searches, under Spec   *)

\* C25: in every reachable state a non-null error implies that the lead list
\* is empty, however the steps of overlapping searches interleave
C25_ErrorImpliesNoLeads == error # Null => leads = <<>>

----------------------------------------------------------------------------
(* The search state with an upstream that answers and timers that fire     *)

\* search i waits for its upstream call: SettleSearch(i) is enabled
Awaiting(i) == i <= Len(calls) /\ calls[i].ps = "awaiting"

\* Every pending upstream call settles and every timer set fires.  The
\* first conjunct is WF_vars(SettleSearch(i)) with ENABLED written out as
\* the guard of the action
SearchFairness ==
  \A i \in 1..MaxSearches :
    /\ []<>(~Awaiting(i)) \/ []<><<i <= Len(calls) /\ SettleSearch(i)>>_vars
    /\ WF_vars(i <= Len(calls) /\ CommitTimer(i))

\* the upstream behaviours of these searches: a lead, no lead, a failure
LiveScripts ==
  {<<Ok(<<"[", "o1", "]">>)>>, <<Ok(<<"[", "]">>)>>, <<Fail(QuotaMsg)>>}

\* the credential is present or absent; the rest is as in Init
LiveInit ==
  /\ apiKey \in {KeyPresent, KeyAbsent}
  /\ userCoords = Null
  /\ loading = FALSE
  /\ error = Null
  /\ leads = <<>>
  /\ progress = 0
  /\ simulatedLeads = 0
  /\ lastQuery = Null
  /\ isSearchModalOpen = FALSE
  /\ calls = <<>>
  /\ job = NewCall(Null, <<>>)
  /\ ViewsInit
  /\ ShellInit
  /\ SignedIn

LiveNext ==
  \/ OpenSearchModal
  \/ CloseSearchModal
  \/ \E q \in Queries, script \in LiveScripts : StartSearch(q, script)
  \/ \E i \in 1..Len(calls) : SettleSearch(i)
  \/ \E i \in 1..Len(calls) : CommitTimer(i)

SpecLive == LiveInit /\ [][LiveNext]_vars /\ SearchFairness

\* this step is the last one of search i
SearchEnds(i) ==
  /\ i <= Len(calls')
  /\ calls'[i].ps = "done"
  /\ i > Len(calls) \/ calls[i].ps # "done"

\* C26: every performSearch comes to its end, and its last step leaves
\* loading false: the catch block, with error set, or the delayed commit of
\* the results
C26_SearchEndsNotLoading ==
  /\ \A i \in 1..MaxSearches :
       (i <= Len(calls)) ~> (i <= Len(calls) /\ calls[i].ps = "done")
  /\ [][\A i \in 1..MaxSearches :
          SearchEnds(i)
            => /\ loading' = FALSE
               /\ calls'[i].find.pc = "thrown" => error' # Null
               /\ calls'[i].find.pc = "returned"
                    => (i <= Len(calls) /\ calls[i].ps = "timer")]_vars

C26_Witness ==
  /\ Len(calls) = MaxSearches
  /\ \A i \in 1..Len(calls) : calls[i].ps = "done"
  /\ \E i \in 1..Len(calls) : calls[i].find.pc = "returned"
  /\ \E i \in 1..Len(calls) : calls[i].find.pc = "thrown"
  /\ ~loading

----------------------------------------------------------------------------
(* The progress display: the effect on [loading] and its progress interval *)

\* setProgress(prev => (prev >= 98 ? prev : prev + (prev < 60 ? 1.5 : 0.5)))
ProgressStep(prev) ==
  IF prev >= Percent(98) THEN prev
  ELSE prev + (IF prev < Percent(60) THEN 3 ELSE 1)

\* setSimulatedLeads(prev => (prev >= 30 ? prev : Math.random() > 0.6 ? prev + 2 : prev)),
\* drew telling whether Math.random() came out above 0.6
SimulatedStep(prev, drew) ==
  IF prev >= 30 THEN prev ELSE IF drew THEN prev + 2 ELSE prev

\* The callback of the progress interval.  The effect on [loading] sets the
\* interval when loading turns true and clears it when loading turns false,
\* so the callback runs while loading is true
ProgressTick ==
  /\ loading
  /\ ticks < MaxTicks
  /\ ticks' = ticks + 1
  /\ progress' = ProgressStep(progress)
  /\ \E drew \in BOOLEAN : simulatedLeads' = SimulatedStep(simulatedLeads, drew)
  /\ UNCHANGED <<apiKey, userCoords, loading, error, leads, lastQuery,
                 isSearchModalOpen, calls, job, viewVars, geoArgs, geoResult,
                 sessionVars>>

ProgressInit == LiveInit /\ apiKey = KeyPresent

ProgressNext == LiveNext \/ ProgressTick

SpecProgress == ProgressInit /\ [][ProgressNext]_vars

\* C27: whenever a search starts, the progress and the simulated lead counter
\* are reset to 0, also when loading is already true at the start
C27_StartResetsProgress ==
  [][Len(calls') > Len(calls) => (progress' = 0 /\ simulatedLeads' = 0)]_vars

\* C28: from the success of a search until loading becomes false, the
\* simulated lead counter is the number of leads returned and the progress
\* is 100; the progress interval changes neither
C28_SuccessPinsProgress ==
  \A i \in 1..Len(calls) :
    (calls[i].ps = "timer" /\ loading)
      => /\ progress = Percent(100)
         /\ simulatedLeads = Len(calls[i].processed)

----------------------------------------------------------------------------
(* The session: the login form, the user log and the administrator's       *)
(* dashboard of App.tsx                                                    *)

\* s.endsWith(suffix)
EndsWith(s, suffix) ==
  /\ Len(s) >= Len(suffix)
  /\ SubSeq(s, Len(s) - Len(suffix) + 1, Len(s)) = suffix

GmailSuffix == <<"@", "g", "m", "a", "i", "l", ".", "c", "o", "m">>

RestrictedMsg ==
  Str(<<"Access Restricted: Only @gmail.com addresses are permitted.">>)

AdminPasswordValue == "Nitesh45090@"

InvalidPasswordMsg == Str(<<"Invalid Administrator Password">>)

\* newUser with the email as it was typed
NewUserAsTyped(typed) == [name |-> typed.name, email |-> typed.email]

\* const newUser = { name: authForm.name, email: authForm.email.toLowerCase() }
NewUser(typed) == [name |-> typed.name, email |-> ToLowerCase(typed.email)]

\* the test before the log is extended, always passed
NotYetLoggedAlways(currentLogs, newUser) == TRUE

\* !currentLogs.some(u => u.email === newUser.email)
NotYetLogged(currentLogs, newUser) ==
  ~\E i \in 1..Len(currentLogs) : currentLogs[i].email = newUser.email

\* currentLogs of handleLogin: the stored log, or [] when nothing is stored
StoredLogs(store) ==
  IF store.easylead_all_users # Null THEN JSON_parse(store.easylead_all_users)
  ELSE <<>>

\* what the login form is filled with: a name; an address at gmail.com, the
\* same in other letter case, another one, and one of another provider; an
\* emptied field
TypedNames == {<<>>, <<"A", "n", "n">>}

TypedEmails ==
  {<<>>,
   <<"a">> \o GmailSuffix,
   <<"A", "@", "G", "m", "a", "i", "l", ".", "C", "O", "M">>,
   <<"b">> \o GmailSuffix,
   <<"a", "@", "y", "a", "h", "o", "o", ".", "c", "o", "m">>}

TypedPasswords == {AdminPasswordValue, "guess"}

\* what localStorage holds when the page loads: nothing, the log of an
\* earlier session, or also the user of a session that was not ended
StoresAtLoad ==
  {EmptyStorage,
   [easylead_user |-> Null, easylead_all_users |-> JSON_stringify(<<SearchingUser>>)],
   [easylead_user |-> JSON_stringify(SearchingUser),
    easylead_all_users |-> JSON_stringify(<<SearchingUser>>)]}

\* the state after the mount effect has read localStorage
SessionInit ==
  /\ apiKey = KeyPresent
  /\ job = NewCall(Null, <<>>)
  /\ userCoords = Null
  /\ loading = FALSE
  /\ error = Null
  /\ leads = <<>>
  /\ progress = 0
  /\ simulatedLeads = 0
  /\ lastQuery = Null
  /\ isSearchModalOpen = FALSE
  /\ calls = <<>>
  /\ ViewsInit
  /\ ShellInit
  /\ localStorage \in StoresAtLoad
  /\ user = IF localStorage.easylead_user # Null
            THEN JSON_parse(localStorage.easylead_user) ELSE Null
  /\ allUsers = StoredLogs(localStorage)

\* the state that no action of the session touches
outsideSession ==
  <<apiKey, userCoords, loading, error, leads, progress, simulatedLeads,
    lastQuery, isSearchModalOpen, calls, job, viewVars, geoArgs, geoResult,
    ticks>>

\* the login form is on the screen
LoginShown == ~isAdminMode /\ user = Null

\* onChange of the name field
typeName(n) ==
  /\ LoginShown
  /\ authForm' = [authForm EXCEPT !.name = n]
  /\ UNCHANGED <<outsideSession, user, loginError, allUsers, localStorage,
                 isAdminMode, isAdminAuthOpen, adminPassword, adminError>>

\* onChange of the email field
typeEmail(e) ==
  /\ LoginShown
  /\ authForm' = [authForm EXCEPT !.email = e]
  /\ loginError' = Null
  /\ UNCHANGED <<outsideSession, user, allUsers, localStorage, isAdminMode,
                 isAdminAuthOpen, adminPassword, adminError>>

\* The login form is submitted.  Both fields are required, so the browser
\* submits the form only when neither is empty
handleLogin ==
  /\ LoginShown
  /\ authForm.name # <<>> /\ authForm.email # <<>>
  /\ LET incomplete == authForm.name = <<>> \/ authForm.email = <<>>
         restricted == ~EndsWith(ToLowerCase(authForm.email), GmailSuffix)
         newUser == NewUser(authForm)
         currentLogs == StoredLogs(localStorage)
         log == NotYetLogged(currentLogs, newUser)
         updatedAll == Append(currentLogs, newUser)
     IN /\ loginError' = IF ~incomplete /\ restricted THEN RestrictedMsg ELSE Null
        /\ user' = IF incomplete \/ restricted THEN user ELSE newUser
        /\ allUsers' = IF incomplete \/ restricted \/ ~log THEN allUsers
                       ELSE updatedAll
        /\ localStorage' =
             IF incomplete \/ restricted THEN localStorage
             ELSE [easylead_user |-> JSON_stringify(newUser),
                   easylead_all_users |->
                     IF log THEN JSON_stringify(updatedAll)
                     ELSE localStorage.easylead_all_users]
  /\ UNCHANGED <<outsideSession, authForm, isAdminMode, isAdminAuthOpen,
                 adminPassword, adminError>>

handleLogout ==
  /\ ~isAdminMode /\ user # Null
  /\ user' = Null
  /\ localStorage' = [localStorage EXCEPT !.easylead_user = Null]
  /\ authForm' = AuthFormInitial
  /\ loginError' = Null
  /\ isAdminMode' = FALSE
  /\ UNCHANGED <<outsideSession, allUsers, isAdminAuthOpen, adminPassword,
                 adminError>>

\* a click on "System Admin" or "Admin"
openAdminAuth ==
  /\ ~isAdminMode /\ ~isAdminAuthOpen
  /\ isAdminAuthOpen' = TRUE
  /\ UNCHANGED <<outsideSession, user, authForm, loginError, allUsers,
                 localStorage, isAdminMode, adminPassword, adminError>>

\* the closing button of the password form
closeAdminAuth ==
  /\ ~isAdminMode /\ isAdminAuthOpen
  /\ isAdminAuthOpen' = FALSE
  /\ adminError' = Null
  /\ adminPassword' = ""
  /\ UNCHANGED <<outsideSession, user, authForm, loginError, allUsers,
                 localStorage, isAdminMode>>

\* onChange of the password field
typeAdminPassword(p) ==
  /\ ~isAdminMode /\ isAdminAuthOpen
  /\ adminPassword' = p
  /\ adminError' = Null
  /\ UNCHANGED <<outsideSession, user, authForm, loginError, allUsers,
                 localStorage, isAdminMode, isAdminAuthOpen>>

handleAdminAuth ==
  /\ ~isAdminMode /\ isAdminAuthOpen
  /\ LET granted == adminPassword = AdminPasswordValue
         savedAllUsers == localStorage.easylead_all_users
     IN /\ isAdminMode' = granted
        /\ isAdminAuthOpen' = ~granted
        /\ adminPassword' = IF granted THEN "" ELSE adminPassword
        /\ adminError' = IF granted THEN Null ELSE InvalidPasswordMsg
        /\ allUsers' = IF granted /\ savedAllUsers # Null
                       THEN JSON_parse(savedAllUsers) ELSE allUsers
  /\ UNCHANGED <<outsideSession, user, authForm, loginError, localStorage>>

\* "Return to Login" of the dashboard
returnToLogin ==
  /\ isAdminMode
  /\ isAdminMode' = FALSE
  /\ UNCHANGED <<outsideSession, user, authForm, loginError, allUsers,
                 localStorage, isAdminAuthOpen, adminPassword, adminError>>

\* "Clear Logs" of the dashboard; confirmed is the answer to window.confirm
clearUserLogs(confirmed) ==
  /\ isAdminMode
  /\ allUsers' = IF confirmed THEN <<>> ELSE allUsers
  /\ localStorage' = IF confirmed
                     THEN [localStorage EXCEPT !.easylead_all_users = Null]
                     ELSE localStorage
  /\ UNCHANGED <<outsideSession, user, authForm, loginError, isAdminMode,
                 isAdminAuthOpen, adminPassword, adminError>>

SessionNext ==
  \/ \E n \in TypedNames : typeName(n)
  \/ \E e \in TypedEmails : typeEmail(e)
  \/ handleLogin
  \/ handleLogout
  \/ openAdminAuth
  \/ closeAdminAuth
  \/ \E p \in TypedPasswords : typeAdminPassword(p)
  \/ handleAdminAuth
  \/ returnToLogin
  \/ \E confirmed \in BOOLEAN : clearUserLogs(confirmed)

SpecSession == SessionInit /\ [][SessionNext]_vars

\* no two entries of the log have the same email
NoDuplicateEmails(logs) ==
  \A i \in 1..Len(logs), j \in 1..Len(logs) :
    i # j => logs[i].email # logs[j].email

\* this step is a login that is accepted, with an email the stored log holds
LoginOfLoggedEmail ==
  /\ user = Null /\ user' # Null
  /\ \E i \in 1..Len(StoredLogs(localStorage)) :
       StoredLogs(localStorage)[i].email = user'.email

\* C29: after any sequence of logins, logouts and clearings of the log, the
\* stored user log holds no two entries with the same email, and a login
\* with an email that is already logged leaves the log unchanged
C29_LogHasNoDuplicates ==
  /\ [](NoDuplicateEmails(StoredLogs(localStorage)) /\ NoDuplicateEmails(allUsers))
  /\ [][LoginOfLoggedEmail
          => /\ localStorage'.easylead_all_users = localStorage.easylead_all_users
             /\ allUsers' = allUsers]_vars

C29_Witness ==
  /\ user # Null
  /\ Len(StoredLogs(localStorage)) = 2
  /\ authForm.email # user.email
  /\ user.email = StoredLogs(localStorage)[1].email

\* the login form holds a name and an email that ends with "@gmail.com" in
\* any letter case
Admissible(typed) ==
  /\ typed.name # <<>>
  /\ typed.email # <<>>
  /\ EndsWith(ToLowerCase(typed.email), GmailSuffix)

----------------------------------------------------------------------------
(* calculateDistance on its own: applied to a pair of points, there and    *)
(* back                                                                    *)

\* the points, in whole degrees: both sides of the equator and of the prime
\* meridian, the two lines themselves, and neighbours a degree apart; no two
\* points lie further apart than the whole-degree arithmetic of
\* calculateDistance carries in 32 bits
GeoLatitudes == {-18, 0, 18, 19}

GeoLongitudes == {-10, 0, 25, 26}

GeoPoints == {[lat |-> la, lng |-> lo] : la \in GeoLatitudes, lo \in GeoLongitudes}

GeoInit ==
  /\ apiKey = KeyPresent
  /\ job = NewCall(Null, <<>>)
  /\ userCoords = Null
  /\ loading = FALSE
  /\ error = Null
  /\ leads = <<>>
  /\ progress = 0
  /\ simulatedLeads = 0
  /\ lastQuery = Null
  /\ isSearchModalOpen = FALSE
  /\ calls = <<>>
  /\ ViewsInit
  /\ geoArgs \in {[a |-> a, b |-> b] : a \in GeoPoints, b \in GeoPoints}
  /\ geoResult = [there |-> Null, back |-> Null]
  /\ authForm = AuthFormInitial
  /\ loginError = Null
  /\ isAdminMode = FALSE
  /\ isAdminAuthOpen = FALSE
  /\ adminPassword = ""
  /\ adminError = Null
  /\ ticks = 0
  /\ SignedIn

\* calculateDistance(a.lat, a.lng, b.lat, b.lng)
MeasureThere ==
  /\ geoResult.there = Null
  /\ geoResult' = [geoResult EXCEPT !.there =
                     Num(calculateDistance(geoArgs.a.lat, geoArgs.a.lng,
                                           geoArgs.b.lat, geoArgs.b.lng))]
  /\ UNCHANGED <<apiKey, userCoords, loading, error, leads, progress,
                 simulatedLeads, lastQuery, isSearchModalOpen, calls, job,
                 viewVars, geoArgs, sessionVars, ticks>>

\* calculateDistance(b.lat, b.lng, a.lat, a.lng)
MeasureBack ==
  /\ geoResult.back = Null
  /\ geoResult' = [geoResult EXCEPT !.back =
                     Num(calculateDistance(geoArgs.b.lat, geoArgs.b.lng,
                                           geoArgs.a.lat, geoArgs.a.lng))]
  /\ UNCHANGED <<apiKey, userCoords, loading, error, leads, progress,
                 simulatedLeads, lastQuery, isSearchModalOpen, calls, job,
                 viewVars, geoArgs, sessionVars, ticks>>

GeoNext == MeasureThere \/ MeasureBack

SpecGeo == GeoInit /\ [][GeoNext]_vars

\* C21: the distance of a point to itself is 0, and the distance from a to b
\* equals the distance from b to a, for all pairs of coordinates
C21_DistanceZeroAndSymmetric ==
  /\ (geoResult.there # Null /\ geoArgs.a = geoArgs.b) => geoResult.there = Num(0)
  /\ (geoResult.there # Null /\ geoResult.back # Null)
       => geoResult.there = geoResult.back

C21_Witness ==
  /\ geoResult.there # Null /\ geoResult.back # Null
  /\ geoArgs.a.lat # geoArgs.b.lat /\ geoArgs.a.lng # geoArgs.b.lng
  /\ CosPercent(geoArgs.a.lat) # CosPercent(geoArgs.b.lat)
  /\ geoResult.there.n > 0

====
